---- MODULE Spec2Model ----
(***************************************************************************)
(* Model of the portfolio API: cache-aside GET handlers over a Redis       *)
(* cache, the GitHub webhook (signature check and cache invalidation) and  *)
(* the sync endpoint.  Every await of a handler is one step, so requests   *)
(* interleave exactly where the Node event loop lets them.                 *)
(***************************************************************************)
EXTENDS Integers, Sequences, FiniteSets, TLC

\* ---------------------------------------------------------------- bounds
MaxReq == 2
MaxPush == 1
MaxTicks == 1

\* ------------------------------------------------------------- constants
Username == "DeMaestro5"
RepoNames == {"portfolio-api"}
TickSteps == {1, 3600}

NoEntry == [none |-> TRUE]
Null == [null |-> TRUE]

\* ------------------------------------------------------------ cache keys
RepoKey(name, suffix) == "github:repository:" \o Username \o "/" \o name \o suffix

GithubKeys ==
  {"github:profile", "github:overview", "github:activities",
   "github:repositories", "github:stats", "github:events"}
    \cup {RepoKey(n, s) : n \in RepoNames,
                          s \in {"", "/commits", "/languages", "/contributors"}}

MetricsKeys ==
  {"metrics:languages", "metrics:activity", "metrics:commit",
   "metrics:repositories", "metrics:contributions", "metrics:productivity",
   "metrics:technologies", "metrics:streak"}

ProjectKeys == {"projects:all", "projects:featured", "projects:search"}

\* the parameters of the by-id, by-language and search endpoints
ProjectIds == {"1"}
Languages == {"TypeScript"}
Queries == {"api"}

ProjectIdKey(id) == "project:" \o id
LanguageKey(language) == "projects:language:" \o language
SearchKey(query) == "projects:search:" \o query

\* the keys the by-id, by-language and search endpoints write
QueryKeys ==
  {ProjectIdKey(id) : id \in ProjectIds}
    \cup {LanguageKey(l) : l \in Languages}
    \cup {SearchKey(q) : q \in Queries}

Keys == GithubKeys \cup MetricsKeys \cup ProjectKeys \cup QueryKeys

\* ------------------------------------------------------ GET handler table
\* One record per handler, read off the handler's code:
\*   key        the cacheKey it reads and writes
\*   ttl        the ttl it passes to cacheService.set
\*   fetch      the service call of the miss branch
\*   preFetch   a GitHub fetch made before the hit/miss branch
\*   rate       the miss branch awaits getRateLimit()
\*   catchSends the catch block sends an error response
\*   health     the handler first awaits cacheService.isHealthy() and throws
\*   clear      the handler awaits clearProjectCache() before the cache read
\*   feed       the response data wraps the value with lastUpdated = now
Base ==
  [preFetch |-> FALSE, rate |-> TRUE, catchSends |-> TRUE, health |-> FALSE,
   clear |-> FALSE, feed |-> FALSE]

With(r, f, v) == [x \in DOMAIN r |-> IF x = f THEN v ELSE r[x]]

H(name, key, ttl, fetch, ok, err) ==
  [name |-> name, key |-> key, ttl |-> ttl, fetch |-> fetch, ok |-> ok,
   err |-> err] @@ Base

getProfile ==
  H("getProfile", "github:profile", 3600, "fetchProfile",
    "Github profile fetched successfully", "Failed to fetch github profile")

getOverview ==
  H("getOverview", "github:overview", 3600, "getOverview",
    "Github overview fetched successfully", "Failed to fetch github overview")

getActivities ==
  With(H("getActivities", "github:activities", 600, "fetchActivities",
         "Github activities fetched successfully",
         "Failed to fetch github activities"), "feed", TRUE)

getRepositories ==
  H("getRepositories", "github:repositories", 3600, "fetchRepositories",
    "Github repositories fetched successfully",
    "Failed to fetch github repositories")

getRepositoryByName(n) ==
  H("getRepositoryByName", RepoKey(n, ""), 3600, "fetchRepositoryByName",
    "Github repository fetched successfully",
    "Failed to fetch github repository")

getStats ==
  With(With(H("getStats", "github:stats", 3600, "calculateStats",
              "Github stats fetched successfully", ""),
            "preFetch", TRUE), "catchSends", FALSE)

getRepositoryCommits(n) ==
  With(With(H("getRepositoryCommits", RepoKey(n, "/commits"), 3600,
              "fetchRepositoryCommits",
              "Github repository commits fetched successfully", ""),
            "rate", FALSE), "catchSends", FALSE)

getRepositoryLanguages(n) ==
  With(H("getRepositoryLanguages", RepoKey(n, "/languages"), 3600,
         "fetchRepositoryLanguages",
         "Github repository languages fetched successfully",
         "Failed to fetch github repository languages"), "rate", FALSE)

getRepositoryContributors(n) ==
  With(H("getRepositoryContributors", RepoKey(n, "/contributors"), 3600,
         "fetchRepositoryContributors",
         "Github repository contributors fetched successfully",
         "Failed to fetch github repository contributors"), "rate", FALSE)

getEvents ==
  With(With(H("getEvents", "github:events", 3600, "fetchEvents",
              "Github events fetched successfully", ""),
            "rate", FALSE), "catchSends", FALSE)

\* metrics controller: 24h ttl, no getRateLimit call
M(name, key, fetch, ok, err) ==
  With(H(name, key, 60 * 60 * 24, fetch, ok, err), "rate", FALSE)

getLanguagesMetrics ==
  M("getLanguagesMetrics", "metrics:languages", "getLanguages",
    "Languages metrics fetched successfully",
    "Failed to fetch languages metrics")

getActivityMetrics ==
  M("getActivityMetrics", "metrics:activity", "getActivity",
    "Activity metrics fetched successfully",
    "Failed to fetch activity metrics")

getCommitMetrics ==
  M("getCommitMetrics", "metrics:commit", "getCommitActivity",
    "Commit metrics fetched successfully", "Failed to fetch commit metrics")

getRepositoriesMetrics ==
  With(M("getRepositoriesMetrics", "metrics:repositories",
         "getRepositoriesMetrics",
         "Repositories metrics fetched successfully", ""),
       "catchSends", FALSE)

getContributionsMetrics ==
  M("getContributionsMetrics", "metrics:contributions",
    "getContributionsMetrics", "Contributions metrics fetched successfully",
    "Failed to fetch contributions metrics")

getProductivityMetrics ==
  With(M("getProductivityMetrics", "metrics:productivity",
         "getProductivityMetrics",
         "Productivity metrics fetched successfully", ""),
       "catchSends", FALSE)

getTechnologiesMetrics ==
  M("getTechnologiesMetrics", "metrics:technologies",
    "getTechnologiesMetrics", "Technologies metrics fetched successfully",
    "Failed to fetch technologies metrics")

getStreakMetrics ==
  M("getStreakMetrics", "metrics:streak", "getStreakMetrics",
    "Streak metrics fetched successfully", "Failed to fetch streak metrics")

\* projects controller: health check first; featured also clears the cache
getProjects ==
  With(H("getProjects", "projects:all", 3600, "getAllProjects",
         "Projects fetched successfully", "Failed to fetch projects"),
       "health", TRUE)

getFeaturedProjects ==
  With(With(H("getFeaturedProjects", "projects:featured", 3600,
              "getFeaturedProjects", "Featured projects fetched successfully",
              "Failed to fetch featured projects"),
            "health", TRUE), "clear", TRUE)

GithubHandlers ==
  {getProfile, getOverview, getActivities, getRepositories, getStats,
   getEvents}
    \cup {getRepositoryByName(n) : n \in RepoNames}
    \cup {getRepositoryCommits(n) : n \in RepoNames}
    \cup {getRepositoryLanguages(n) : n \in RepoNames}
    \cup {getRepositoryContributors(n) : n \in RepoNames}

MetricsHandlers ==
  {getLanguagesMetrics, getActivityMetrics, getCommitMetrics,
   getRepositoriesMetrics, getContributionsMetrics, getProductivityMetrics,
   getTechnologiesMetrics, getStreakMetrics}

getProjectById(id) ==
  H("getProjectById", ProjectIdKey(id), 3600, "getProjectById",
    "Project fetched successfully", "Failed to fetch project by id")

getProjectsByLanguage(language) ==
  H("getProjectsByLanguage", LanguageKey(language), 3600,
    "getProjectsByLanguage", "Projects fetched successfully",
    "Failed to fetch projects by language")

\* searchProjects: its catch block only logs
searchProjects(query) ==
  With(H("searchProjects", SearchKey(query), 1800, "getAllProjects",
         "Projects search request completed", ""),
       "catchSends", FALSE)

QueryHandlers ==
  {getProjectById(id) : id \in ProjectIds}
    \cup {getProjectsByLanguage(l) : l \in Languages}
    \cup {searchProjects(q) : q \in Queries}

ProjectHandlers == {getProjects, getFeaturedProjects} \cup QueryHandlers

Handlers == GithubHandlers \cup MetricsHandlers \cup ProjectHandlers

\* ------------------------------------------------------------------ state
VARIABLES
  cache,        \* Redis: key -> NoEntry or [val, exp, born]
  req,          \* the requests received so far, each with its position
  gh,           \* version of the data GitHub holds
  now,          \* wall clock, seconds
  ticks,        \* number of clock advances so far
  redisUp,      \* whether Redis answers
  pushesBegun,  \* push webhooks that passed verification
  pushesDone,   \* push webhooks answered 200
  secret        \* process.env.GITHUB_WEBHOOK_SECRET, "" when not configured

vars ==
  <<cache, req, gh, now, ticks, redisUp, pushesBegun, pushesDone, secret>>

\* ------------------------------------------------------------------- JSON
\* JSON.stringify drops the properties whose value is undefined; JSON.parse
\* gives back what is left.
Defined(v) ==
  [f \in {g \in DOMAIN v : ~(g = "topics" /\ v[g] = "undefined")} |-> v[f]]

NestedFields == {"profile", "stats", "commits", "activities", "overview"}

Stringify(v) ==
  [json |-> [f \in DOMAIN Defined(v) |->
               IF f \in NestedFields THEN Defined(v[f]) ELSE v[f]]]

Parse(s) == s.json

\* What GitHub answers at version v: topics is absent from some payloads.
GitHubData(fetch, v) ==
  [src |-> fetch, ver |-> v,
   topics |-> IF v % 2 = 0 THEN "undefined" ELSE "set"]

\* calculateStats(repositories): local computation over the fetched list
calculateStats(repositories) ==
  [src |-> "calculateStats", ver |-> repositories.ver, topics |-> "set"]

\* ActivityFeed built by getActivities on every request
ActivityFeed(activities, t) ==
  [activities |-> activities, lastUpdated |-> t]

\* ---------------------------------------------------------- CacheService
Live(c, k, t) == c[k] # NoEntry /\ t < c[k].exp

\* get: the parsed value, or null on a miss or a Redis error
CacheGet(c, k, up, t) ==
  IF up /\ Live(c, k, t) THEN Parse(c[k].val) ELSE Null

\* set: setEx(key, ttl, JSON.stringify(value)); a Redis error is absorbed
CacheSet(c, k, v, ttl, up, t, born) ==
  IF up THEN [c EXCEPT ![k] = [val |-> Stringify(v), exp |-> t + ttl,
                               born |-> born]]
  ELSE c

\* del: a Redis error is absorbed
CacheDel(c, k, up) == IF up THEN [c EXCEPT ![k] = NoEntry] ELSE c

\* isHealthy: ping succeeds
isHealthy(up) == up

\* clearProjectCache deletes these keys in this order
clearProjectCache == <<"projects:all", "projects:featured", "projects:search">>

\* getRateLimit: the conditional expression is computed and dropped, the
\* function has no return statement on the success path
getRateLimit(remaining) == "undefined"

\* --------------------------------------------------------------- requests
\* A handler runs without interruption from one await to the next, so each
\* action below is the completion of one awaited operation followed by the
\* synchronous code up to the next await (or to the end of the handler).
\* Fields of a request: pc (the await it is parked on), h (its handler), the
\* handler's locals (hit, data, pre, rl, todo, sub, result) and resp, the
\* responses written to res.  The others record history for the properties:
\* fetched (GitHub data fetches made), born (pushesBegun when the served
\* data was fetched), arrived (pushesDone at arrival), prior (requests
\* already answered at arrival), getAt / setAt (time of the cache read /
\* write), threw (what made the handler enter its catch block), sawUp
\* (some cache call of the request found Redis up), dels (keys deleted),
\* quota (the remaining quota GitHub reported to getRateLimit).
DoneAtArrival == {j \in DOMAIN req : req[j].pc = "done"}

BlankReq ==
  [pc |-> "get", h |-> Null, hit |-> FALSE, data |-> Null, pre |-> Null,
   rl |-> "undefined", todo |-> <<>>, sub |-> <<>>, result |-> Null,
   resp |-> <<>>, fetched |-> 0, born |-> 0, arrived |-> pushesDone,
   prior |-> DoneAtArrival, getAt |-> -1, setAt |-> -1, threw |-> "",
   sawUp |-> FALSE, dels |-> <<>>, quota |-> -1]

NewReq(h) ==
  [BlankReq EXCEPT !.pc = IF h.health THEN "health" ELSE "get", !.h = h]

Init ==
  /\ cache = [k \in Keys |-> NoEntry]
  /\ req = <<>>
  /\ gh = 0
  /\ now = 0
  /\ ticks = 0
  /\ redisUp = TRUE
  /\ pushesBegun = 0
  /\ pushesDone = 0
  /\ secret = "s3cr3t"

Env == <<gh, now, ticks, redisUp, pushesBegun, pushesDone, secret>>

At(i, pc) == i \in DOMAIN req /\ req[i].pc = pc

Upd(i, r) == req' = [req EXCEPT ![i] = r]

\* new GitHubSuccessResponse(message, data, cached, rateLimitInfo).send(res)
SuccessResponse(r, t) ==
  [status |-> 200, message |-> r.h.ok, cached |-> r.hit,
   data |-> Stringify(IF r.h.feed THEN ActivityFeed(r.data, t) ELSE r.data),
   rateLimit |-> r.rl]

\* new GitHubErrorResponse(message, error.message).send(res)
ErrorResponse(msg) ==
  [status |-> 500, message |-> msg, cached |-> FALSE]

\* the end of the try block: response.send(res)
Respond(r, t) ==
  [r EXCEPT !.resp = Append(r.resp, SuccessResponse(r, t)), !.pc = "done"]

\* the catch block: log, and send the error response if the block has one
Caught(r, cause) ==
  [r EXCEPT !.resp = IF r.h.catchSends
                     THEN Append(r.resp, ErrorResponse(r.h.err))
                     ELSE r.resp,
            !.threw = cause,
            !.pc = "done"]

\* a request arrives for handler h and awaits its first cache call
Start(h, n) ==
  /\ Len(req) < n
  /\ req' = Append(req, NewReq(h))
  /\ UNCHANGED <<cache, Env>>

\* await cacheService.isHealthy(); throw when it is false
Health(i) ==
  /\ At(i, "health")
  /\ LET r == req[i] IN
       Upd(i, IF ~isHealthy(redisUp) THEN Caught(r, "cache")
              ELSE IF r.h.clear
                   THEN [r EXCEPT !.pc = "clear", !.todo = clearProjectCache,
                                  !.sawUp = TRUE]
                   ELSE [r EXCEPT !.pc = "get", !.sawUp = TRUE])
  /\ UNCHANGED <<cache, Env>>

\* await cacheService.clearProjectCache(): one awaited del per step
Clear(i) ==
  /\ At(i, "clear")
  /\ LET r == req[i] IN
       /\ cache' = CacheDel(cache, Head(r.todo), redisUp)
       /\ Upd(i, [r EXCEPT !.todo = Tail(r.todo),
                           !.dels = Append(r.dels, Head(r.todo)),
                           !.sawUp = r.sawUp \/ redisUp,
                           !.pc = IF Len(r.todo) = 1 THEN "get" ELSE "clear"])
  /\ UNCHANGED Env

\* await cacheService.get(cacheKey), then the hit branch up to the response
Get(i) ==
  /\ At(i, "get")
  /\ LET r == req[i]
         v == CacheGet(cache, r.h.key, redisUp, now)
         hit == v # Null
         r1 == [r EXCEPT !.data = v, !.hit = hit, !.getAt = now,
                         !.sawUp = r.sawUp \/ redisUp,
                         !.born = IF hit THEN cache[r.h.key].born ELSE 0]
     IN Upd(i, IF r.h.preFetch THEN [r1 EXCEPT !.pc = "prefetch"]
               ELSE IF hit THEN Respond(r1, now)
               ELSE [r1 EXCEPT !.pc = "fetch"])
  /\ UNCHANGED <<cache, Env>>

\* getStats: await githubService.fetchRepositories() before the branch; on
\* a miss calculateStats(repositories) follows without further I/O
PreFetch(i) ==
  /\ At(i, "prefetch")
  /\ LET r == req[i] IN
       \E ok \in BOOLEAN :
         Upd(i, IF ~ok THEN Caught(r, "github")
                ELSE LET r1 == [r EXCEPT
                                  !.pre = GitHubData("fetchRepositories", gh),
                                  !.fetched = r.fetched + 1]
                     IN IF r.hit THEN Respond(r1, now)
                        ELSE [r1 EXCEPT !.data = calculateStats(r1.pre),
                                        !.born = pushesBegun,
                                        !.pc = "set"])
  /\ UNCHANGED <<cache, Env>>

\* a miss branch that stores whatever the failed call left behind
Fetch_StoresOnError(i) ==
  /\ At(i, "fetch")
  /\ LET r == req[i] IN
       \E ok \in BOOLEAN :
         /\ Upd(i, IF ~ok THEN Caught(r, "github")
                   ELSE [r EXCEPT !.data = GitHubData(r.h.fetch, gh),
                                  !.fetched = r.fetched + 1,
                                  !.born = pushesBegun,
                                  !.pc = "set"])
         /\ cache' = IF ok THEN cache
                     ELSE CacheSet(cache, r.h.key, Null, r.h.ttl, redisUp,
                                   now, pushesBegun)
  /\ UNCHANGED Env

\* the miss branch: await the service call, which throws when GitHub fails
Fetch(i) ==
  /\ At(i, "fetch")
  /\ LET r == req[i] IN
       \E ok \in BOOLEAN :
         Upd(i, IF ~ok THEN Caught(r, "github")
                ELSE [r EXCEPT !.data = GitHubData(r.h.fetch, gh),
                               !.fetched = r.fetched + 1,
                               !.born = pushesBegun,
                               !.pc = "set"])
  /\ UNCHANGED <<cache, Env>>

\* a set that keeps the entry another request stored in the meantime
Set_IfAbsent(i) ==
  /\ At(i, "set")
  /\ LET r == req[i] IN
       /\ cache' = IF Live(cache, r.h.key, now) THEN cache
                   ELSE CacheSet(cache, r.h.key, r.data, r.h.ttl, redisUp,
                                 now, r.born)
       /\ LET r1 == [r EXCEPT !.setAt = now, !.sawUp = r.sawUp \/ redisUp]
          IN Upd(i, IF r.h.rate THEN [r1 EXCEPT !.pc = "rate"]
                    ELSE Respond(r1, now))
  /\ UNCHANGED Env

\* await cacheService.set(cacheKey, value, ttl)
Set(i) ==
  /\ At(i, "set")
  /\ LET r == req[i] IN
       /\ cache' = CacheSet(cache, r.h.key, r.data, r.h.ttl, redisUp, now,
                            r.born)
       /\ LET r1 == [r EXCEPT !.setAt = now, !.sawUp = r.sawUp \/ redisUp]
          IN Upd(i, IF r.h.rate THEN [r1 EXCEPT !.pc = "rate"]
                    ELSE Respond(r1, now))
  /\ UNCHANGED Env

\* what githubService.getRateLimit() can answer: GitHub's remaining quota
Quotas == {0, 4999}

\* rateLimitInfo = await getRateLimit(), then the response
Rate(i) ==
  /\ At(i, "rate")
  /\ \E remaining \in Quotas :
       Upd(i, Respond([req[i] EXCEPT !.rl = getRateLimit(remaining),
                                     !.quota = remaining], now))
  /\ UNCHANGED <<cache, Env>>

\* ---------------------------------------------------------------- webhook
\* processWebhookEvent: the keys each event handler deletes, in order
\* a push handler that forgets the overview key
handlePushEvent_NoOverview ==
  <<"github:repositories", "github:stats", "github:activities">>

handlePushEvent ==
  <<"github:repositories", "github:overview", "github:stats",
    "github:activities">>

handleCreateEvent == <<"github:repositories", "github:stats">>

handleDeleteEvent == <<"github:repositories", "github:stats">>

handleWatchEvent == <<"github:stats">>

handleForkEvent == <<"github:stats">>

handleIssuesEvent == <<"github:activities">>

handlePullRequestEvent == <<"github:activities">>

processWebhookEvent(eventType) ==
  CASE eventType = "push" -> handlePushEvent
    [] eventType = "create" -> handleCreateEvent
    [] eventType = "delete" -> handleDeleteEvent
    [] eventType = "watch" -> handleWatchEvent
    [] eventType = "fork" -> handleForkEvent
    [] eventType = "issues" -> handleIssuesEvent
    [] eventType = "pull_request" -> handlePullRequestEvent
    [] OTHER -> <<>>

EventTypes ==
  {"push", "create", "delete", "watch", "fork", "issues", "pull_request",
   "ping"}

\* HMAC-SHA256 as an injective function of key and bytes
Hmac(key, bytes) == <<key, bytes>>

\* the bytes the client sent, and JSON.stringify(req.body) of the parsed body
RawBody == "raw bytes"
Restringified == "JSON.stringify(req.body)"

\* X-Hub-Signature-256 headers: absent, 'sha256=' + hex of an HMAC, or a
\* string of another length
NoHeader == [kind |-> "none", mac |-> <<>>]
ShortHeader == [kind |-> "short", mac |-> <<>>]
SigHeader(key, bytes) == [kind |-> "sha256=", mac |-> Hmac(key, bytes)]

Headers ==
  {NoHeader, ShortHeader}
    \cup {SigHeader(k, b) : k \in {"s3cr3t", "guess", ""},
                            b \in {RawBody, Restringified}}

HeaderLength(h) ==
  CASE h.kind = "none" -> 0
    [] h.kind = "short" -> 12
    [] OTHER -> 7 + 64

\* verifyWebhookSignature(payload, signature) under the configured secret
verifyWebhookSignature(payload, signature, sec) ==
  IF sec = "" \/ signature = NoHeader THEN FALSE
  ELSE LET expected == SigHeader(sec, payload) IN
         IF HeaderLength(signature) # HeaderLength(expected) THEN FALSE
         ELSE signature = expected

\* the payload the handler verifies: req.rawBody when express.json captured
\* it, otherwise the re-serialised parsed body
WebhookPayload(rawCaptured) ==
  IF rawCaptured THEN RawBody ELSE Restringified

NewHook(header, rawCaptured, eventType, wellFormed) ==
  [BlankReq EXCEPT
     !.pc = "del",
     !.h = [name |-> "handleGithubWebhook", header |-> header,
            rawCaptured |-> rawCaptured, event |-> eventType,
            wellFormed |-> wellFormed],
     !.todo = processWebhookEvent(eventType)]

HookResponse(status, msg) == [status |-> status, message |-> msg]

\* the end of an event handler: Logger.info reads payload.repository.name
\* (and the event's own fields), which throws on a payload without them;
\* then res.status(200), or the catch block's res.status(500)
HookFinish(r) ==
  [r EXCEPT !.pc = "done",
            !.resp = Append(r.resp,
                       IF r.h.wellFormed \/ r.h.event = "ping"
                       THEN HookResponse(200, "Webhook processed successfully")
                       ELSE HookResponse(500, "Webhook processing failed"))]

HookAnswered200(r) ==
  r.pc = "done" /\ r.resp # <<>> /\ r.resp[Len(r.resp)].status = 200

\* handleGithubWebhook up to its first await: the signature checks run
\* synchronously, and so does everything when the event deletes no key
StartHook(header, rawCaptured, eventType, wellFormed, n) ==
  /\ Len(req) < n
  /\ LET r == NewHook(header, rawCaptured, eventType, wellFormed)
         rejected(status, msg) ==
           [r EXCEPT !.pc = "done", !.todo = <<>>,
                     !.resp = <<HookResponse(status, msg)>>]
         verified ==
           verifyWebhookSignature(WebhookPayload(rawCaptured), header, secret)
         r1 == IF header = NoHeader
               THEN rejected(400, "Missing signature or payload")
               ELSE IF ~verified
                    THEN rejected(401, "Invalid Webhook Signature")
                    ELSE IF r.todo = <<>> THEN HookFinish(r) ELSE r
     IN /\ req' = Append(req, r1)
        /\ pushesBegun' = IF r1.pc = "del" /\ eventType = "push"
                          THEN pushesBegun + 1 ELSE pushesBegun
  /\ UNCHANGED <<cache, gh, now, ticks, redisUp, pushesDone, secret>>

\* a del that treats a key that was not there as a failure of the event
HookDel_FailsOnAbsent(i) ==
  /\ At(i, "del")
  /\ LET r == req[i]
         r1 == [r EXCEPT !.todo = Tail(r.todo),
                         !.dels = Append(r.dels, Head(r.todo)),
                         !.sawUp = r.sawUp \/ redisUp]
         r2 == IF cache[Head(r.todo)] = NoEntry
               THEN [r1 EXCEPT !.pc = "done", !.todo = <<>>,
                               !.resp = <<HookResponse(500,
                                            "Webhook processing failed")>>]
               ELSE IF r1.todo = <<>> THEN HookFinish(r1) ELSE r1
     IN /\ cache' = CacheDel(cache, Head(r.todo), redisUp)
        /\ Upd(i, r2)
        /\ pushesDone' = IF r.h.event = "push" /\ HookAnswered200(r2)
                         THEN pushesDone + 1 ELSE pushesDone
  /\ UNCHANGED <<gh, now, ticks, redisUp, pushesBegun, secret>>

\* await cacheService.del(key) of an event handler; after the last one the
\* handler logs and the controller answers
HookDel(i) ==
  /\ At(i, "del")
  /\ LET r == req[i]
         r1 == [r EXCEPT !.todo = Tail(r.todo),
                         !.dels = Append(r.dels, Head(r.todo)),
                         !.sawUp = r.sawUp \/ redisUp]
         r2 == IF r1.todo = <<>> THEN HookFinish(r1) ELSE r1
     IN /\ cache' = CacheDel(cache, Head(r.todo), redisUp)
        /\ Upd(i, r2)
        /\ pushesDone' = IF r.h.event = "push" /\ HookAnswered200(r2)
                         THEN pushesDone + 1 ELSE pushesDone
  /\ UNCHANGED <<gh, now, ticks, redisUp, pushesBegun, secret>>

\* ------------------------------------------------------------------- sync
\* clearAllGitHubCache: the five dels are issued together
clearAllGitHubCache ==
  <<"github:profile", "github:repositories", "github:activities",
    "github:stats", "github:overview">>

\* the three tasks syncAllUserData awaits together with Promise.all
syncProfile ==
  [key |-> "github:profile", ttl |-> 3600, fetch |-> "fetchProfile"]

syncRepositories ==
  [key |-> "github:repositories", ttl |-> 1800,
   fetch |-> "fetchAllRepositoriesInBatches"]

syncActivities ==
  [key |-> "github:activities", ttl |-> 600, fetch |-> "fetchActivities"]

SyncTasks == {"profile", "repositories", "activities"}

SyncTask(t) ==
  CASE t = "profile" -> syncProfile
    [] t = "repositories" -> syncRepositories
    [] t = "activities" -> syncActivities

\* syncStats and syncOverview write these keys with these ttls
syncStats == [key |-> "github:stats", ttl |-> 7200]

syncOverview == [key |-> "github:overview", ttl |-> 900]

NewSync ==
  [BlankReq EXCEPT
     !.pc = "sync_clear",
     !.h = [name |-> "syncGitHubData"],
     !.data = [profile |-> Null, repositories |-> Null, activities |-> Null,
               stats |-> Null, overview |-> Null],
     !.result = [success |-> TRUE, syncedData |-> {}, errors |-> 0]]

\* syncGitHubData: syncAllUserData returns its result in every case, so the
\* controller always builds the success response around it; its catch
\* block ('Failed to sync github data') is entered only if the call throws
syncGitHubData(result, threw) ==
  IF threw THEN ErrorResponse("Failed to sync github data")
  ELSE [status |-> 200, message |-> "Github data sync completed successfully",
        cached |-> FALSE, data |-> result]

\* syncAllUserData's catch block: success = false, the error is recorded
\* and the results are returned
SyncFailed(r) ==
  LET result == [success |-> FALSE, syncedData |-> {}, errors |-> 1] IN
    [r EXCEPT !.result = result, !.threw = "github", !.pc = "done",
              !.resp = Append(r.resp, syncGitHubData(result, FALSE))]

StartSync(n) ==
  /\ Len(req) < n
  /\ req' = Append(req, NewSync)
  /\ UNCHANGED <<cache, Env>>

\* await clearAllGitHubCache(), then the three tasks start
SyncClear(i) ==
  /\ At(i, "sync_clear")
  /\ LET r == req[i] IN
       /\ cache' = [k \in Keys |->
                      IF k \in {clearAllGitHubCache[j] :
                                  j \in DOMAIN clearAllGitHubCache}
                      THEN CacheDel(cache, k, redisUp)[k] ELSE cache[k]]
       /\ Upd(i, [r EXCEPT !.pc = "sync_all",
                           !.dels = clearAllGitHubCache,
                           !.sawUp = r.sawUp \/ redisUp,
                           !.sub = [t \in SyncTasks |->
                                      [st |-> "fetch", born |-> 0]]])
  /\ UNCHANGED Env

\* a task's fetch completes; a failure rejects the Promise.all, and the
\* other tasks keep running
SyncFetch(i, t) ==
  /\ i \in DOMAIN req
  /\ req[i].sub # <<>>
  /\ req[i].sub[t].st = "fetch"
  /\ LET r == req[i] IN
       \E ok \in BOOLEAN :
         Upd(i, IF ok
                THEN [r EXCEPT !.sub[t] = [st |-> "set", born |-> pushesBegun],
                               !.data[t] = GitHubData(SyncTask(t).fetch, gh),
                               !.fetched = r.fetched + 1]
                ELSE LET r1 == [r EXCEPT !.sub[t].st = "failed"] IN
                       IF r.pc = "sync_all" THEN SyncFailed(r1) ELSE r1)
  /\ UNCHANGED <<cache, Env>>

\* a task's cacheService.set completes; when the three tasks are done
\* syncStats computes the stats and awaits its own set
SyncSet(i, t) ==
  /\ i \in DOMAIN req
  /\ req[i].sub # <<>>
  /\ req[i].sub[t].st = "set"
  /\ LET r == req[i]
         r1 == [r EXCEPT !.sub[t].st = "done",
                         !.sawUp = r.sawUp \/ redisUp]
     IN /\ cache' = CacheSet(cache, SyncTask(t).key, r.data[t],
                             SyncTask(t).ttl, redisUp, now, r.sub[t].born)
        /\ Upd(i, IF r.pc = "sync_all"
                     /\ \A u \in SyncTasks : r1.sub[u].st = "done"
                  THEN [r1 EXCEPT !.data.stats =
                                    calculateStats(r.data.repositories),
                                  !.born = r.sub.repositories.born,
                                  !.pc = "sync_stats"]
                  ELSE r1)
  /\ UNCHANGED Env

\* syncStats: await cacheService.set('github:stats', stats, 7200)
SyncStats(i) ==
  /\ At(i, "sync_stats")
  /\ LET r == req[i] IN
       /\ cache' = CacheSet(cache, syncStats.key, r.data.stats, syncStats.ttl,
                            redisUp, now, r.born)
       /\ Upd(i, [r EXCEPT !.pc = "sync_commits"])
  /\ UNCHANGED Env

\* syncOverview: await fetchRecentCommits(repositories), which answers []
\* for a repository whose commits cannot be listed and does not throw
SyncCommits(i) ==
  /\ At(i, "sync_commits")
  /\ LET r == req[i] IN
       \E ok \in BOOLEAN :
         Upd(i, [r EXCEPT
                   !.data.overview =
                     [profile |-> r.data.profile, stats |-> r.data.stats,
                      commits |-> IF ok
                                  THEN GitHubData("fetchRecentCommits", gh)
                                  ELSE GitHubData("fetchRecentCommits", -1),
                      activities |-> r.data.activities],
                   !.pc = "sync_overview"])
  /\ UNCHANGED <<cache, Env>>

\* await cacheService.set('github:overview', overview, 900); the result is
\* returned and the controller answers
SyncOverview(i) ==
  /\ At(i, "sync_overview")
  /\ LET r == req[i]
         result == [success |-> TRUE,
                    syncedData |-> {"profile", "repositories", "activities",
                                    "stats", "overview"},
                    errors |-> 0]
     IN /\ cache' = CacheSet(cache, syncOverview.key, r.data.overview,
                             syncOverview.ttl, redisUp, now, r.born)
        /\ Upd(i, [r EXCEPT !.result = result, !.pc = "done",
                            !.resp = Append(r.resp,
                                            syncGitHubData(result, FALSE))])
  /\ UNCHANGED Env

\* --------------------------------------------------------------- projects
\* Repository names are sequences of characters, so that String.includes
\* is computed and not assumed.
Fork == <<"f", "o", "r", "k">>

\* the repositories GitHub may list for the user: a plain one, a private
\* one, a fork, and one that is no fork but is called "forks"
ApiRepos ==
  {[id |-> 1, name |-> <<"a", "p", "i">>, private |-> FALSE, fork |-> FALSE],
   [id |-> 2, name |-> <<"c", "v">>, private |-> TRUE, fork |-> FALSE],
   [id |-> 3, name |-> <<"v", "i", "m">>, private |-> FALSE, fork |-> TRUE],
   [id |-> 4, name |-> <<"f", "o", "r", "k", "s">>, private |-> FALSE,
    fork |-> FALSE]}

\* repos.listForUser: the repositories of S in the order of their ids
ListForUser(S) ==
  CHOOSE q \in [1..Cardinality(S) -> S] :
    \A a, b \in DOMAIN q : a < b => q[a].id < q[b].id

\* fetchRepositories: the fields of GitHubRepository kept from the answer
fetchRepositories(response) ==
  [j \in DOMAIN response |->
     [id |-> response[j].id, name |-> response[j].name,
      is_private |-> response[j].private]]

\* String.prototype.includes
includes(str, sub) ==
  \E a \in 1..(Len(str) - Len(sub) + 1) :
    SubSeq(str, a, a + Len(sub) - 1) = sub

\* filterRepositories: !repo.is_private && !repo.name.includes('fork')
filterRepositories(repositories) ==
  LET keep(repo) == ~repo.is_private /\ ~includes(repo.name, Fork)
  IN SelectSeq(repositories, keep)

mapRepositoryToProject(repo) == [id |-> repo.id, name |-> repo.name]

\* ProjectService.getAllProjects on the answer of GitHub
getAllProjects(response) ==
  LET projectRepos == filterRepositories(fetchRepositories(response))
  IN [j \in DOMAIN projectRepos |-> mapRepositoryToProject(projectRepos[j])]

\* the miss branch of getProjects with the list of projects spelled out:
\* pre keeps what GitHub answered
GetAllProjects(i) ==
  /\ At(i, "fetch")
  /\ req[i].h = getProjects
  /\ LET r == req[i] IN
       \E ok \in BOOLEAN, S \in SUBSET ApiRepos :
         Upd(i, IF ~ok THEN Caught(r, "github")
                ELSE [r EXCEPT
                        !.pre = [response |-> ListForUser(S)],
                        !.data = GitHubData(r.h.fetch, gh)
                                   @@ [projects |->
                                         getAllProjects(ListForUser(S))],
                        !.fetched = r.fetched + 1,
                        !.born = pushesBegun,
                        !.pc = "set"])
  /\ UNCHANGED <<cache, Env>>

\* ---------------------------------------------------------------- streaks
\* Commit days are day numbers: getStreakMetrics builds commitDays from the
\* distinct calendar days of the commits, sorted ascending.
MaxDay == 5

\* the days of S in ascending order
SortedDays(S) ==
  CHOOSE q \in [1..Cardinality(S) -> S] :
    \A a, b \in DOMAIN q : a < b => q[a] < q[b]

Streak(days) == [start |-> days[1], end |-> days[Len(days)], days |-> Len(days)]

\* a streak of new Date(): no start, no end
NoStreak == [start |-> 0, end |-> 0, days |-> 0]

\* the loop of findConsecutiveDays from index i on, and the push of the
\* last streak after it: a streak is recorded only when it has more than
\* one day
RECURSIVE ScanDays(_, _, _, _)
ScanDays(dates, i, currentStreak, streaks) ==
  LET pushed == IF Len(currentStreak) > 1
                THEN Append(streaks, Streak(currentStreak))
                ELSE streaks
  IN IF i > Len(dates) THEN pushed
     ELSE IF dates[i] - dates[i - 1] = 1
          THEN ScanDays(dates, i + 1, Append(currentStreak, dates[i]), streaks)
          ELSE ScanDays(dates, i + 1, <<dates[i]>>, pushed)

findConsecutiveDays(dates) == ScanDays(dates, 2, <<dates[1]>>, <<>>)

\* streaks.reduce((longest, streak) =>
\*   streak.days > longest.days ? streak : longest)
RECURSIVE Longest(_, _, _)
Longest(streaks, i, longest) ==
  IF i > Len(streaks) THEN longest
  ELSE Longest(streaks, i + 1,
               IF streaks[i].days > longest.days THEN streaks[i] ELSE longest)

Reverse(q) == [j \in DOMAIN q |-> q[Len(q) + 1 - j]]

\* the backwards count of getCurrentStreak from index i on
RECURSIVE CountBack(_, _, _)
CountBack(dates, i, streak) ==
  IF i > Len(dates) \/ dates[i - 1] - dates[i] # 1 THEN streak
  ELSE CountBack(dates, i + 1,
                 [streak EXCEPT !.start = dates[i], !.days = streak.days + 1])

\* getCurrentStreak(dates, most recent first), today being the current day
getCurrentStreak(dates, today) ==
  IF Len(dates) = 0 THEN NoStreak
  ELSE IF today - dates[1] > 1 THEN NoStreak
  ELSE CountBack(dates, 2, [start |-> dates[1], end |-> dates[1], days |-> 1])

calculateStreaks(commitDays, today) ==
  IF Len(commitDays) = 0
  THEN [currentStreak |-> NoStreak, longestStreak |-> NoStreak]
  ELSE IF Len(commitDays) = 1
  THEN [currentStreak |-> Streak(commitDays),
        longestStreak |-> Streak(commitDays)]
  ELSE LET streaks == findConsecutiveDays(commitDays) IN
         [currentStreak |-> getCurrentStreak(Reverse(commitDays), today),
          longestStreak |-> IF Len(streaks) > 0
                            THEN Longest(streaks, 2, streaks[1])
                            ELSE NoStreak]

\* the miss branch of the streak handler with the metrics spelled out: pre
\* keeps the commit days GitHub's commits fall on
GetStreakMetrics(i) ==
  /\ At(i, "fetch")
  /\ req[i].h = getStreakMetrics
  /\ LET r == req[i] IN
       \E ok \in BOOLEAN, S \in SUBSET (1..MaxDay), ahead \in 0..2 :
         Upd(i, IF ~ok THEN Caught(r, "github")
                ELSE LET commitDays == SortedDays(S)
                         streaks == calculateStreaks(commitDays,
                                                     MaxDay + ahead)
                     IN [r EXCEPT
                           !.pre = [commitDays |-> commitDays],
                           !.data = GitHubData(r.h.fetch, gh)
                                      @@ [currentStreak |->
                                            streaks.currentStreak,
                                          longestStreak |->
                                            streaks.longestStreak,
                                          commitsDays |-> Len(commitDays)],
                           !.fetched = r.fetched + 1,
                           !.born = pushesBegun,
                           !.pc = "set"])
  /\ UNCHANGED <<cache, Env>>

\* ------------------------------------------------------------ environment
\* a push to a repository: GitHub's data changes
GitHubChange ==
  /\ gh < MaxPush
  /\ gh' = gh + 1
  /\ UNCHANGED <<cache, req, now, ticks, redisUp, pushesBegun, pushesDone, secret>>

\* time passes; Redis drops the entries whose ttl ran out
Tick ==
  /\ ticks < MaxTicks
  /\ \E d \in TickSteps :
       /\ now' = now + d
       /\ cache' = [k \in Keys |-> IF Live(cache, k, now + d) THEN cache[k]
                                   ELSE NoEntry]
  /\ ticks' = ticks + 1
  /\ UNCHANGED <<req, gh, redisUp, pushesBegun, pushesDone, secret>>

RedisDown ==
  /\ redisUp
  /\ redisUp' = FALSE
  /\ UNCHANGED <<cache, req, gh, now, ticks, pushesBegun, pushesDone, secret>>

RedisBack ==
  /\ ~redisUp
  /\ redisUp' = TRUE
  /\ UNCHANGED <<cache, req, gh, now, ticks, pushesBegun, pushesDone, secret>>

\* ---------------------------------------------------------- specification
DoHealth == \E i \in DOMAIN req : Health(i)
DoClear == \E i \in DOMAIN req : Clear(i)
DoGet == \E i \in DOMAIN req : Get(i)
DoPreFetch == \E i \in DOMAIN req : PreFetch(i)
DoFetch == \E i \in DOMAIN req : Fetch(i)
DoSet == \E i \in DOMAIN req : Set(i)
DoRate == \E i \in DOMAIN req : Rate(i)

\* Spec: the GitHub, metrics and projects GET endpoints over a healthy Redis
StartGet == \E h \in Handlers : Start(h, MaxReq)

Next ==
  \/ StartGet
  \/ DoHealth
  \/ DoClear
  \/ DoGet
  \/ DoPreFetch
  \/ DoFetch
  \/ DoSet
  \/ DoRate
  \/ GitHubChange
  \/ Tick

Spec == Init /\ [][Next]_vars

\* SpecHook: webhooks next to the GET endpoints whose data a push affects
MaxHookReq == 2

HookHandlers ==
  {getRepositories, getStats, getActivities, getProfile, getCommitMetrics,
   getProjects}
    \cup {getRepositoryCommits(n) : n \in RepoNames}

InitHook ==
  /\ cache = [k \in Keys |-> NoEntry]
  /\ req = <<>>
  /\ gh = 0
  /\ now = 0
  /\ ticks = 0
  /\ redisUp = TRUE
  /\ pushesBegun = 0
  /\ pushesDone = 0
  /\ secret \in {"s3cr3t", ""}

StartHookGet == \E h \in HookHandlers : Start(h, MaxHookReq)

StartWebhook ==
  \E header \in Headers, rawCaptured \in BOOLEAN, eventType \in EventTypes,
     wellFormed \in BOOLEAN :
    StartHook(header, rawCaptured, eventType, wellFormed, MaxHookReq)

DoHookDel == \E i \in DOMAIN req : HookDel(i)

NextHook ==
  \/ StartHookGet
  \/ StartWebhook
  \/ DoHookDel
  \/ DoHealth
  \/ DoGet
  \/ DoPreFetch
  \/ DoFetch
  \/ DoSet
  \/ DoRate
  \/ GitHubChange

SpecHook == InitHook /\ [][NextHook]_vars

\* SpecEvents: verified webhooks of every event type over a cache that is
\* empty or holds every endpoint's entry, next to GET requests
MaxEventReq == 2

\* the cache after every GET endpoint was read once at time 0
WarmCache ==
  [k \in Keys |->
     IF \E h \in Handlers : h.key = k
     THEN LET h == CHOOSE g \in Handlers : g.key = k IN
            [val |-> Stringify(IF h.fetch = "calculateStats"
                               THEN calculateStats(
                                      GitHubData("fetchRepositories", 0))
                               ELSE GitHubData(h.fetch, 0)),
             exp |-> h.ttl, born |-> 0]
     ELSE NoEntry]

InitEvents ==
  /\ cache \in {[k \in Keys |-> NoEntry], WarmCache}
  /\ req = <<>>
  /\ gh = 0
  /\ now = 0
  /\ ticks = 0
  /\ redisUp = TRUE
  /\ pushesBegun = 0
  /\ pushesDone = 0
  /\ secret = "s3cr3t"

EventHandlers == {getRepositories, getProfile}

StartEventGet == \E h \in EventHandlers : Start(h, MaxEventReq)

StartEvent ==
  \E eventType \in EventTypes, wellFormed \in BOOLEAN :
    StartHook(SigHeader(secret, RawBody), TRUE, eventType, wellFormed,
              MaxEventReq)

NextEvents ==
  \/ StartEventGet
  \/ StartEvent
  \/ DoHookDel
  \/ DoGet
  \/ DoFetch
  \/ DoSet
  \/ DoRate

SpecEvents == InitEvents /\ [][NextEvents]_vars

\* SpecRace: reads of the four keys a push deletes, racing with verified,
\* well-formed push webhooks
MaxRaceReq == 3

RaceHandlers == {getRepositories, getActivities}

StartRaceGet == \E h \in RaceHandlers : Start(h, MaxRaceReq)

StartPush ==
  StartHook(SigHeader(secret, RawBody), TRUE, "push", TRUE, MaxRaceReq)

NextRace ==
  \/ StartRaceGet
  \/ StartPush
  \/ DoHookDel
  \/ DoGet
  \/ DoFetch
  \/ DoSet
  \/ DoRate
  \/ GitHubChange

SpecRace == Init /\ [][NextRace]_vars

\* SpecRedis: GET endpoints while Redis comes and goes
MaxRedisReq == 2

RedisHandlers ==
  {getProfile, getStats, getProjects, getFeaturedProjects,
   getLanguagesMetrics}

StartRedisGet == \E h \in RedisHandlers : Start(h, MaxRedisReq)

NextRedis ==
  \/ StartRedisGet
  \/ DoHealth
  \/ DoClear
  \/ DoGet
  \/ DoPreFetch
  \/ DoFetch
  \/ DoSet
  \/ DoRate
  \/ RedisDown
  \/ RedisBack

SpecRedis == Init /\ [][NextRedis]_vars

\* SpecSync: POST /github/sync next to reads of the keys it rewrites
MaxSyncReq == 2

SyncHandlers == {getProfile, getRepositories}

StartSyncGet == \E h \in SyncHandlers : Start(h, MaxSyncReq)

StartSyncReq == StartSync(MaxSyncReq)

DoSyncClear == \E i \in DOMAIN req : SyncClear(i)
DoSyncFetch == \E i \in DOMAIN req, t \in SyncTasks : SyncFetch(i, t)
DoSyncSet == \E i \in DOMAIN req, t \in SyncTasks : SyncSet(i, t)
DoSyncStats == \E i \in DOMAIN req : SyncStats(i)
DoSyncCommits == \E i \in DOMAIN req : SyncCommits(i)
DoSyncOverview == \E i \in DOMAIN req : SyncOverview(i)

NextSync ==
  \/ StartSyncGet
  \/ StartSyncReq
  \/ DoSyncClear
  \/ DoSyncFetch
  \/ DoSyncSet
  \/ DoSyncStats
  \/ DoSyncCommits
  \/ DoSyncOverview
  \/ DoGet
  \/ DoFetch
  \/ DoSet
  \/ DoRate
  \/ GitHubChange

SpecSync == Init /\ [][NextSync]_vars

\* SpecErr: handlers whose GitHub call may fail, of each shape: the common
\* one, the pre-fetching getStats and a metrics handler; Redis may become
\* unreachable
MaxErrReq == 2

ErrHandlers == {getRepositories, getStats, getStreakMetrics}

StartErrGet == \E h \in ErrHandlers : Start(h, MaxErrReq)

NextErr ==
  \/ StartErrGet
  \/ DoGet
  \/ DoPreFetch
  \/ DoFetch
  \/ DoSet
  \/ DoRate
  \/ GitHubChange
  \/ RedisDown

SpecErr == Init /\ [][NextErr]_vars

\* SpecProjects: the projects endpoints next to each other
MaxProjectReq == 2

StartProjectGet == \E h \in ProjectHandlers : Start(h, MaxProjectReq)

NextProjects ==
  \/ StartProjectGet
  \/ DoHealth
  \/ DoClear
  \/ DoGet
  \/ DoFetch
  \/ DoSet
  \/ DoRate

SpecProjects == Init /\ [][NextProjects]_vars

\* SpecFilter: GET /projects/all-projects with the repository list and the
\* projects derived from it spelled out
MaxFilterReq == 2

StartFilterGet == Start(getProjects, MaxFilterReq)

DoGetAllProjects == \E i \in DOMAIN req : GetAllProjects(i)

NextFilter ==
  \/ StartFilterGet
  \/ DoHealth
  \/ DoGet
  \/ DoGetAllProjects
  \/ DoSet
  \/ DoRate

SpecFilter == Init /\ [][NextFilter]_vars

\* SpecStreak: GET /metrics/streak with the commit days and the streaks
\* computed from them spelled out
MaxStreakReq == 2

StartStreakGet == Start(getStreakMetrics, MaxStreakReq)

DoGetStreakMetrics == \E i \in DOMAIN req : GetStreakMetrics(i)

NextStreak ==
  \/ StartStreakGet
  \/ DoGet
  \/ DoGetStreakMetrics
  \/ DoSet

SpecStreak == Init /\ [][NextStreak]_vars

\* ------------------------------------------------------------- properties
Range(q) == {q[j] : j \in DOMAIN q}

IsHook(r) == r.h.name = "handleGithubWebhook"

IsGet(r) == r.h.name \in {h.name : h \in Handlers}

\* processWebhookEvent was called for webhook request r
Ran(r) == IsHook(r) /\ (r.pc = "del" \/ r.resp[1].status \in {200, 500})

LastStatus(r) == IF r.resp = <<>> THEN 0 ELSE r.resp[Len(r.resp)].status

\* C1 (as claimed): processWebhookEvent runs only for a request whose
\* X-Hub-Signature-256 header is 'sha256=' + HMAC-SHA256 of the raw request
\* body under the configured secret; no signature is answered 400, a wrong
\* signature or a missing secret 401, and neither deletes a cache key.
C1_Claim ==
  \A i \in DOMAIN req :
    LET r == req[i] IN
      IsHook(r) =>
        /\ Ran(r) => (secret # "" /\ r.h.header = SigHeader(secret, RawBody))
        /\ r.h.header = NoHeader => (LastStatus(r) = 400 /\ r.dels = <<>>)
        /\ (r.h.header # NoHeader
              /\ (secret = "" \/ r.h.header # SigHeader(secret, RawBody)))
             => (LastStatus(r) = 401 /\ r.dels = <<>>)

\* the keys the claim lists for each event type
ClaimedKeys(eventType) ==
  CASE eventType = "push" ->
         {"github:repositories", "github:overview", "github:stats",
          "github:activities"}
    [] eventType \in {"create", "delete"} ->
         {"github:repositories", "github:stats"}
    [] eventType \in {"watch", "fork"} -> {"github:stats"}
    [] eventType \in {"issues", "pull_request"} -> {"github:activities"}
    [] OTHER -> {}

C5_State ==
  \A i \in DOMAIN req :
    LET r == req[i] IN
      Ran(r) =>
        /\ Range(r.dels) \subseteq ClaimedKeys(r.h.event)
        /\ r.pc = "done" => Range(r.dels) = ClaimedKeys(r.h.event)

C5_Step ==
  \A i \in DOMAIN req :
    (IsHook(req[i]) /\ req[i].pc = "del" /\ req'[i] # req[i]) =>
      LET k == Head(req[i].todo) IN
        /\ k \in ClaimedKeys(req[i].h.event)
        /\ cache' = [cache EXCEPT ![k] = NoEntry]

\* C5: every del step of processWebhookEvent removes one key of the event
\* type's list and changes no other cache key, and when the event has been
\* processed the keys deleted are exactly the list of its type: push ->
\* repositories, overview, stats, activities; create, delete -> repositories,
\* stats; watch, fork -> stats; issues, pull_request -> activities; any
\* other type -> none.
C5_WebhookDeletesExactly == []C5_State /\ [][C5_Step]_vars

\* a processed push over the warm cache: its four keys are gone, the
\* profile entry is still there
C5_Witness ==
  \E i \in DOMAIN req :
    /\ IsHook(req[i]) /\ req[i].h.event = "push" /\ req[i].pc = "done"
    /\ Len(req[i].dels) = 4
    /\ cache["github:overview"] = NoEntry
    /\ cache["github:profile"] # NoEntry
    /\ cache["metrics:commit"] # NoEntry

\* the keys whose data a push changes, as the claim lists them
PushAffectedKeys ==
  {"github:repositories", "github:overview", "github:stats",
   "github:activities"}
    \cup {RepoKey(n, "/commits") : n \in RepoNames}
    \cup {"projects:all", "projects:featured"}
    \cup MetricsKeys

\* C7 (as claimed): once a verified push webhook has been processed, the
\* cache holds no entry computed from data fetched before that push, the
\* commits, projects:* and metrics:* keys included.
C7_Claim ==
  [][pushesDone' > pushesDone =>
       \A k \in PushAffectedKeys :
         cache'[k] # NoEntry => cache'[k].born >= pushesDone']_vars

\* the one response of an answered request
Resp(r) == r.resp[1]

Answered(r) == r.pc = "done" /\ Len(r.resp) = 1

\* C2 (as claimed): a GET response marked cached=true was produced without
\* any GitHub data fetch in that request.
C2_Claim ==
  \A i \in DOMAIN req :
    LET r == req[i] IN
      (IsGet(r) /\ Answered(r) /\ Resp(r).cached) => r.fetched = 0

\* request j is the next request for the key that request i stored, with
\* the entry still within its ttl when j read the cache
NextForSameKey(i, j) ==
  /\ IsGet(req[i]) /\ IsGet(req[j])
  /\ req[i].h = req[j].h
  /\ i \in req[j].prior
  /\ req[j].pc = "done"
  /\ Answered(req[i]) /\ Resp(req[i]).status = 200 /\ ~req[i].hit
  /\ req[i].setAt >= 0
  /\ req[j].getAt < req[i].setAt + req[i].h.ttl
  /\ \A k \in DOMAIN req \ {i, j} : ~IsGet(req[k]) \/ req[k].h # req[i].h

\* C3 (as claimed): after a request that missed, fetched and stored its
\* result, the next request for the same key within the ttl is answered
\* cached=true with data equal to the data of the first response.
C3_Claim ==
  \A i, j \in DOMAIN req :
    (NextForSameKey(i, j)
       /\ req[i].h \in GithubHandlers \cup MetricsHandlers)
      => /\ Answered(req[j])
         /\ Resp(req[j]).status = 200
         /\ Resp(req[j]).cached
         /\ Resp(req[j]).data = Resp(req[i]).data

\* C4 (as claimed): a handler that has finished has written exactly one
\* response, a success when the data was obtained and an error when the
\* fetch or computation threw.
C4_Claim ==
  \A i \in DOMAIN req :
    LET r == req[i] IN
      (IsGet(r) /\ r.pc = "done") =>
        /\ Len(r.resp) = 1
        /\ Resp(r).status = IF r.threw = "" THEN 200 ELSE 500

\* C6 (as claimed): a request that arrives after a verified push webhook
\* was answered 200 is never served, from the cache, data of the four push
\* keys that was fetched before that push was processed.
C6_Claim ==
  \A i \in DOMAIN req :
    LET r == req[i] IN
      (IsGet(r) /\ Answered(r) /\ Resp(r).cached
         /\ r.h.key \in Range(handlePushEvent))
        => r.born >= r.arrived

\* C8 (as claimed): a request handled while Redis is unreachable, whose
\* GitHub fetch works, is answered with a success response carrying freshly
\* fetched data and cached=false.
C8_Claim ==
  \A i \in DOMAIN req :
    LET r == req[i] IN
      (IsGet(r) /\ r.pc = "done" /\ ~r.sawUp /\ r.threw # "github")
        => /\ Answered(r)
           /\ Resp(r).status = 200
           /\ ~Resp(r).cached
           /\ r.fetched > 0

\* C9 (as claimed): a second request to the featured-projects endpoint
\* within the 3600 s ttl of the first is answered from projects:featured
\* with cached=true and without fetching from GitHub.
C9_Claim ==
  \A i, j \in DOMAIN req :
    (NextForSameKey(i, j) /\ req[i].h = getFeaturedProjects)
      => /\ Answered(req[j])
         /\ Resp(req[j]).cached
         /\ req[j].fetched = 0

IsSync(r) == r.h.name = "syncGitHubData"

\* C10 (as claimed): POST /github/sync is answered 'Github data sync
\* completed successfully' only when every step of the sync succeeded, and
\* with the error response 'Failed to sync github data' when a fetch failed.
C10_Claim ==
  \A i \in DOMAIN req :
    LET r == req[i] IN
      (IsSync(r) /\ Answered(r)) =>
        IF r.threw = "" /\ r.result.success
        THEN Resp(r).message = "Github data sync completed successfully"
        ELSE /\ Resp(r).status = 500
             /\ Resp(r).message = "Failed to sync github data"

\* the cache key syncAllUserData writes for an item of syncedData
SyncedKey(t) == "github:" \o t

\* C11 (as claimed): when syncAllUserData returns success=true, it deleted
\* the five keys before fetching, and each key of syncedData holds the value
\* fetched during that sync.
C11_Claim ==
  [][\A i \in DOMAIN req :
       (IsSync(req[i]) /\ req[i].pc # "done" /\ req'[i].pc = "done"
          /\ req'[i].result.success)
         => /\ req'[i].dels = clearAllGitHubCache
            /\ \A t \in req'[i].result.syncedData :
                 /\ cache'[SyncedKey(t)] # NoEntry
                 /\ cache'[SyncedKey(t)].val = Stringify(req'[i].data[t])]_vars

\* C12 (as claimed): a cached response carries no rate-limit information,
\* and a cached=false response of a handler that called getRateLimit while
\* GitHub's remaining quota was greater than 0 carries that quota as
\* metadata.rateLimit.remaining.
C12_Claim ==
  \A i \in DOMAIN req :
    LET r == req[i] IN
      (IsGet(r) /\ Answered(r) /\ Resp(r).status = 200) =>
        /\ Resp(r).cached => Resp(r).rateLimit = "undefined"
        /\ (~Resp(r).cached /\ r.quota > 0) =>
             /\ Resp(r).rateLimit # "undefined"
             /\ Resp(r).rateLimit.remaining = r.quota

Failed(r) ==
  /\ IsGet(r)
  /\ r.h \in GithubHandlers \cup MetricsHandlers
  /\ r.threw = "github"

\* a failed request has made no cache write
C13_State ==
  \A i \in DOMAIN req :
    Failed(req[i]) => (req[i].setAt = -1 /\ req[i].dels = <<>>)

\* the step in which the handler's call throws leaves the cache as it was
C13_Step ==
  \A i \in DOMAIN req :
    (~Failed(req[i]) /\ Failed(req'[i])) => cache' = cache

\* C13: when the GitHub fetch or the metrics computation of a GitHub or
\* metrics GET handler throws, that request has written nothing to the
\* cache and the failing step leaves the cache unchanged: no error is
\* cached.
C13_ErrorNeverCached == []C13_State /\ [][C13_Step]_vars

\* a request failed after a miss while another request's entry is cached
C13_Witness ==
  \E i, j \in DOMAIN req :
    /\ Failed(req[i]) /\ req[i].getAt >= 0 /\ ~req[i].hit
    /\ req[j].setAt >= 0 /\ req[j].pc = "done"
    /\ cache[req[j].h.key] # NoEntry
    /\ cache[req[i].h.key] = NoEntry

\* C14 (as claimed): a verified webhook whose processing throws is answered
\* 500 'Webhook processing failed' and has deleted no cache key.
C14_Claim ==
  \A i \in DOMAIN req :
    LET r == req[i] IN
      (IsHook(r) /\ r.pc = "done" /\ LastStatus(r) = 500) =>
        /\ r.resp[Len(r.resp)].message = "Webhook processing failed"
        /\ r.dels = <<>>

\* C15 (as claimed): a step of a GET handler changes no cache entry other
\* than the entry of the handler's own key.
C15_Claim ==
  [][\A i \in DOMAIN req :
       (IsGet(req[i]) /\ req'[i] # req[i]) =>
         \A k \in Keys \ {req[i].h.key} : cache'[k] = cache[k]]_vars

\* the keys under which the projects endpoints store project results
ProjectResultKeys == {"projects:all", "projects:featured"} \cup QueryKeys

\* C16 (as claimed): when clearProjectCache has returned, no key holding
\* project results is left in the cache, the search, by-language and by-id
\* keys included.
C16_Claim ==
  [][\A i \in DOMAIN req :
       (req[i].pc = "clear" /\ req'[i].pc # "clear") =>
         \A k \in ProjectResultKeys : cache'[k] = NoEntry]_vars

\* request r saw a miss and its calls succeeded
Missed(r) == IsGet(r) /\ r.getAt >= 0 /\ ~r.hit /\ r.threw = ""

\* a request that missed and has finished made one fetch and one cache
\* write of its own and was answered cached=false
C17_State ==
  \A i \in DOMAIN req :
    LET r == req[i] IN
      (Missed(r) /\ r.pc = "done") =>
        /\ r.fetched = 1
        /\ r.setAt >= 0
        /\ Answered(r) /\ Resp(r).status = 200 /\ ~Resp(r).cached

\* each set that reaches Redis overwrites the entry: the key holds the
\* value of the set that ran last
C17_Step ==
  \A i \in DOMAIN req :
    (IsGet(req[i]) /\ req[i].pc = "set" /\ req'[i] # req[i] /\ redisUp) =>
      /\ cache'[req[i].h.key] # NoEntry
      /\ cache'[req[i].h.key].val = Stringify(req[i].data)

\* C17: requests are not coalesced: every request that saw a miss makes
\* its own GitHub fetch and its own cache write and is answered
\* cached=false, and after each write the key holds that write's value, so
\* the last set wins.
C17_NotCoalesced == []C17_State /\ [][C17_Step]_vars

\* two requests for the same key both missed, fetched different data and
\* stored it; the key holds what the later set wrote
C17_Witness ==
  \E i, j \in DOMAIN req :
    /\ i # j /\ req[i].h = req[j].h
    /\ Missed(req[i]) /\ Missed(req[j])
    /\ req[i].pc = "done" /\ req[j].pc = "done"
    /\ req[i].fetched = 1 /\ req[j].fetched = 1
    /\ Resp(req[i]).data # Resp(req[j]).data
    /\ cache[req[j].h.key] # NoEntry
    /\ cache[req[j].h.key].val = Stringify(req[j].data)

\* the ttl the GET handler of key k stores it with
HandlerTtl(k) == (CHOOSE h \in GithubHandlers : h.key = k).ttl

\* C18 (as claimed): whichever code path writes one of the five synced
\* keys, the entry is stored with the ttl of the key's GET handler.
C18_Claim ==
  [][\A k \in Range(clearAllGitHubCache) :
       (cache'[k] # cache[k] /\ cache'[k] # NoEntry) =>
         cache'[k].exp = now + HandlerTtl(k)]_vars

\* webhook request j is a second delivery of the event of request i, right
\* after it: i was answered when j arrived, and every other request was
\* answered before i arrived or arrived after j was answered
InARow(i, j) ==
  /\ i # j /\ IsHook(req[i]) /\ IsHook(req[j])
  /\ req[i].h = req[j].h
  /\ i \in req[j].prior
  /\ HookAnswered200(req[i])
  /\ \A k \in DOMAIN req \ {i, j} : k \in req[i].prior \/ j \in req[k].prior

\* the second delivery is answered 200 and has issued the same dels
C19_State ==
  \A i, j \in DOMAIN req :
    (InARow(i, j) /\ req[j].pc = "done") =>
      /\ HookAnswered200(req[j])
      /\ req[j].dels = req[i].dels

\* no step of the second delivery changes the cache
C19_Step ==
  \A i, j \in DOMAIN req :
    (InARow(i, j) /\ req'[j] # req[j]) => cache' = cache

\* C19: a verified webhook event delivered a second time right after it
\* was processed and answered 200 is answered 200 again and leaves the
\* cache as the first delivery left it.
C19_WebhookIdempotent == []C19_State /\ [][C19_Step]_vars

\* a push delivered twice over the warm cache: both answered 200, the four
\* keys gone, the profile entry still there
C19_Witness ==
  \E i, j \in DOMAIN req :
    /\ InARow(i, j) /\ req[j].pc = "done"
    /\ req[j].h.event = "push"
    /\ Len(req[j].dels) = 4
    /\ cache["github:stats"] = NoEntry
    /\ cache["github:profile"] # NoEntry

\* C20 (as claimed): getAllProjects returns no project for a repository
\* that is private or a fork, and exactly one project for every repository
\* that is neither.
C20_Claim ==
  \A i \in DOMAIN req :
    LET r == req[i] IN
      (IsGet(r) /\ r.h = getProjects /\ r.pre # Null) =>
        \A j \in DOMAIN r.pre.response :
          LET repo == r.pre.response[j]
              found == {p \in DOMAIN r.data.projects :
                          r.data.projects[p].id = repo.id}
          IN Cardinality(found) =
               IF repo.private \/ repo.fork THEN 0 ELSE 1

\* the length of the longest run of consecutive days in the set S
LongestRun(S) ==
  LET Runs == {<<a, b>> \in (1..MaxDay) \X (1..MaxDay) :
                 a <= b /\ \A d \in a..b : d \in S}
  IN IF Runs = {} THEN 0
     ELSE CHOOSE n \in 1..MaxDay :
            /\ \E run \in Runs : run[2] - run[1] + 1 = n
            /\ \A run \in Runs : run[2] - run[1] + 1 <= n

\* C21 (as claimed): longestStreak.days is the length of the longest run of
\* consecutive calendar days among the commit days: 0 only without commit
\* days, 1 when no two commit days are consecutive.
C21_Claim ==
  \A i \in DOMAIN req :
    LET r == req[i] IN
      (IsGet(r) /\ r.h = getStreakMetrics /\ r.pre # Null) =>
        r.data.longestStreak.days = LongestRun(Range(r.pre.commitDays))

====
